---- MODULE Spec2Model ----
(***************************************************************************)
(* Model of the creative prompt generator (src/App.tsx): the selection     *)
(* engine (three slots shuffled from two pools), the annotation engine     *)
(* (the content-editable notes panel with its highlight toggle), the       *)
(* generation call with the copy button, and a PromptSlot's display.       *)
(*                                                                         *)
(* The notes Document is the DOM subtree of the editor element: a tree of  *)
(* text nodes, highlight markers (span.annotation-marker) and other        *)
(* elements. DOM operations the handler calls (Range.intersectsNode,       *)
(* Range.surroundContents, Range.extractContents, Range.insertNode,        *)
(* Node.normalize, innerHTML) are operators that follow the DOM standard's *)
(* algorithms.                                                             *)
(***************************************************************************)
EXTENDS Integers, Sequences, FiniteSets, TLC

\* ------------------------------------------------------------------ bounds

\* Number of characters of text in a Document at start.
MaxText == 3

\* A toggle is taken when it leaves the editor element with at most this many
\* nodes (the element itself counted).
MaxNodes == 5

\* Number of entries of the largest pool drawn at start.
MaxPool == 3

\* Number of characters of the longest API key typed.
MaxKey == 2

\* Number of characters of the longest text a generation call returns.
MaxContent == 2

\* Number of times generateAIPrompt is invoked in a session.
MaxRequests == 1

\* Number of clicks on the copy button in a session.
MaxCopies == 3

\* Number of events (shuffle, typing, focus, blur) a PromptSlot receives.
MaxSlotEvents == 8

Letters == <<"a", "b", "c", "d", "e", "f">>

\* ------------------------------------------------------- sequences, helpers

Range(s) == {s[i] : i \in 1..Len(s)}

Front(s) == SubSeq(s, 1, Len(s) - 1)

Last(s) == s[Len(s)]

RECURSIVE Flatten(_)
Flatten(ss) == IF ss = <<>> THEN <<>> ELSE Head(ss) \o Flatten(Tail(ss))

RECURSIVE SumSeq(_)
SumSeq(ns) == IF ns = <<>> THEN 0 ELSE Head(ns) + SumSeq(Tail(ns))

\* ------------------------------------------------------------ the DOM tree

\* A node: k is "t" (Text), "m" (span.annotation-marker), "e" (any other
\* element), "el" (the editor element) or "x" (a marker collected in the
\* handler's `intersecting` array); d is a Text node's data, c an element's
\* child list.
Text(d) == [k |-> "t", d |-> d, c |-> <<>>]

Elem(k, c) == [k |-> k, d |-> <<>>, c |-> c]

IsText(n) == n.k = "t"

IsMarker(n) == n.k \in {"m", "x"}

\* DOM "length" of a node: data length of a Text node, child count otherwise.
Length(n) == IF IsText(n) THEN Len(n.d) ELSE Len(n.c)

RECURSIVE NodeAt(_, _)
NodeAt(n, p) == IF p = <<>> THEN n ELSE NodeAt(n.c[Head(p)], Tail(p))

\* Paths (child indices from n, 1-based) of all inclusive descendants of n.
RECURSIVE Paths(_)
Paths(n) ==
  {<<>>} \cup UNION {{<<i>> \o q : q \in Paths(n.c[i])} : i \in 1..Len(n.c)}

\* A boundary point (node, offset): p the node's path, o the offset in it.
Point(p, o) == [p |-> p, o |-> o]

Points(n) ==
  UNION {{Point(p, o) : o \in 0..Length(NodeAt(n, p))} : p \in Paths(n)}

Key(pt) ==
  [i \in 1..(Len(pt.p) + 1) |-> IF i <= Len(pt.p) THEN pt.p[i] - 1 ELSE pt.o]

RECURSIVE LexLess(_, _)
LexLess(x, y) ==
  IF x = <<>> THEN y # <<>>
  ELSE IF y = <<>> THEN FALSE
  ELSE IF Head(x) # Head(y) THEN Head(x) < Head(y)
  ELSE LexLess(Tail(x), Tail(y))

\* DOM "position of a boundary point relative to another": a is before b.
Before(a, b) == LexLess(Key(a), Key(b))

IsPrefix(p, q) == Len(p) <= Len(q) /\ SubSeq(q, 1, Len(p)) = p

\* ------------------------------------------------ innerHTML and text content

RECURSIVE Serialize(_)
Serialize(n) ==
  IF IsText(n) THEN n.d
  ELSE IF n.k = "el" THEN Flatten([i \in 1..Len(n.c) |-> Serialize(n.c[i])])
  ELSE IF IsMarker(n)
    THEN <<"<m>">> \o Flatten([i \in 1..Len(n.c) |-> Serialize(n.c[i])]) \o <<"</m>">>
  ELSE <<"<e>">> \o Flatten([i \in 1..Len(n.c) |-> Serialize(n.c[i])]) \o <<"</e>">>

\* Node.textContent: the concatenated plain text.
RECURSIVE PlainText(_)
PlainText(n) ==
  IF IsText(n) THEN n.d ELSE Flatten([i \in 1..Len(n.c) |-> PlainText(n.c[i])])

\* ----------------------------------------------------------- Node.normalize

\* The child list with every run of Text siblings replaced by one Text node
\* holding the run's data, or by nothing when the run's data is empty.
RECURSIVE MergeText(_)
MergeText(cs) ==
  IF cs = <<>> THEN <<>>
  ELSE IF ~IsText(Head(cs)) THEN <<Head(cs)>> \o MergeText(Tail(cs))
  ELSE IF Len(cs) >= 2 /\ IsText(cs[2])
    THEN MergeText(<<Text(cs[1].d \o cs[2].d)>> \o SubSeq(cs, 3, Len(cs)))
  ELSE IF Head(cs).d = <<>> THEN MergeText(Tail(cs))
  ELSE <<Head(cs)>> \o MergeText(Tail(cs))

\* normalize() acts on every descendant Text node of n.
RECURSIVE Normalize(_)
Normalize(n) ==
  IF IsText(n) THEN n
  ELSE [n EXCEPT !.c = MergeText([i \in 1..Len(n.c) |-> Normalize(n.c[i])])]

\* ------------------------------------------------------ Range.intersectsNode

\* q is the path of a node other than the root; s, e the range's boundary
\* points. The node intersects when (parent, index) is before the range's end
\* and (parent, index + 1) is after its start.
IntersectsNode(s, e, q) ==
  /\ Before(Point(Front(q), Last(q) - 1), e)
  /\ Before(s, Point(Front(q), Last(q)))

\* ---------------------------------------------------- Range.extractContents

\* Extraction of the range s..e (boundary points relative to the element n).
\* Returns the fragment's child list (frag), n after the extraction (node) and
\* the boundary point the range is collapsed to (pos). A partially contained
\* Text node is split by data, a partially contained element is cloned and
\* the part of its content inside the range moves into the clone.
RECURSIVE ExtractContents(_, _, _)
ExtractContents(n, s, e) ==
  IF s.p # <<>> /\ e.p # <<>> /\ Head(s.p) = Head(e.p)
  THEN LET h == Head(s.p)
           ch == n.c[h]
       IN IF IsText(ch)
          THEN [frag |-> <<Text(SubSeq(ch.d, s.o + 1, e.o))>>,
                node |-> [n EXCEPT !.c[h] =
                            Text(SubSeq(ch.d, 1, s.o) \o SubSeq(ch.d, e.o + 1, Len(ch.d)))],
                pos |-> Point(<<h>>, s.o)]
          ELSE LET r == ExtractContents(ch, Point(Tail(s.p), s.o), Point(Tail(e.p), e.o))
               IN [frag |-> r.frag,
                   node |-> [n EXCEPT !.c[h] = r.node],
                   pos |-> Point(<<h>> \o r.pos.p, r.pos.o)]
  ELSE \* n is the common ancestor container
       LET fi == IF s.p = <<>> THEN 0 ELSE Head(s.p)
           li == IF e.p = <<>> THEN 0 ELSE Head(e.p)
           first ==
             IF fi = 0 THEN [frag |-> <<>>, rest |-> <<>>]
             ELSE LET ch == n.c[fi]
                  IN IF IsText(ch)
                     THEN [frag |-> <<Text(SubSeq(ch.d, s.o + 1, Len(ch.d)))>>,
                           rest |-> <<Text(SubSeq(ch.d, 1, s.o))>>]
                     ELSE LET r == ExtractContents(ch, Point(Tail(s.p), s.o),
                                                   Point(<<>>, Len(ch.c)))
                          IN [frag |-> <<[ch EXCEPT !.c = r.frag]>>, rest |-> <<r.node>>]
           last ==
             IF li = 0 THEN [frag |-> <<>>, rest |-> <<>>]
             ELSE LET ch == n.c[li]
                  IN IF IsText(ch)
                     THEN [frag |-> <<Text(SubSeq(ch.d, 1, e.o))>>,
                           rest |-> <<Text(SubSeq(ch.d, e.o + 1, Len(ch.d)))>>]
                     ELSE LET r == ExtractContents(ch, Point(<<>>, 0),
                                                   Point(Tail(e.p), e.o))
                          IN [frag |-> <<[ch EXCEPT !.c = r.frag]>>, rest |-> <<r.node>>]
           lo == IF fi = 0 THEN s.o + 1 ELSE fi + 1
           hi == IF li = 0 THEN e.o ELSE li - 1
       IN [frag |-> first.frag \o SubSeq(n.c, lo, hi) \o last.frag,
           node |-> [n EXCEPT !.c = SubSeq(n.c, 1, lo - 1 - Len(first.rest))
                                    \o first.rest \o last.rest
                                    \o SubSeq(n.c, hi + 1 + Len(last.rest), Len(n.c))],
           pos |-> Point(<<>>, lo - 1)]

\* --------------------------------------------------------- Range.insertNode

\* Path of a node inserted at the (collapsed) range position pos of n.
InsertedPath(n, pos) ==
  IF IsText(NodeAt(n, pos.p)) THEN Front(pos.p) \o <<Last(pos.p) + 1>>
  ELSE pos.p \o <<pos.o + 1>>

\* A Text start node is split at the offset (also at offset 0 and at its end,
\* which leaves an empty Text node) and the node goes between the halves;
\* otherwise the node goes before the start node's child at the offset.
RECURSIVE InsertNode(_, _, _)
InsertNode(n, pos, new) ==
  IF pos.p = <<>>
  THEN [n EXCEPT !.c = SubSeq(n.c, 1, pos.o) \o <<new>> \o SubSeq(n.c, pos.o + 1, Len(n.c))]
  ELSE LET h == Head(pos.p)
           ch == n.c[h]
       IN IF IsText(ch)
          THEN [n EXCEPT !.c = SubSeq(n.c, 1, h - 1)
                                 \o <<Text(SubSeq(ch.d, 1, pos.o)), new,
                                      Text(SubSeq(ch.d, pos.o + 1, Len(ch.d)))>>
                                 \o SubSeq(n.c, h + 1, Len(n.c))]
          ELSE [n EXCEPT !.c[h] = InsertNode(ch, Point(Tail(pos.p), pos.o), new)]

\* Node.appendChild of a fragment's children to the node at path q.
RECURSIVE AppendChildren(_, _, _)
AppendChildren(n, q, frag) ==
  IF q = <<>> THEN [n EXCEPT !.c = n.c \o frag]
  ELSE [n EXCEPT !.c[Head(q)] = AppendChildren(n.c[Head(q)], Tail(q), frag)]

\* ---------------------------------------------------- Range.surroundContents

\* surroundContents throws InvalidStateError when a non-Text node is partially
\* contained in the range: an inclusive ancestor of one boundary point's node
\* and not of the other's.
SurroundThrows(n, s, e) ==
  \E q \in Paths(n) \ {<<>>} :
    /\ ~IsText(NodeAt(n, q))
    /\ IsPrefix(q, s.p) # IsPrefix(q, e.p)

\* Extract the range, insert the (empty) new parent at the range, then append
\* the fragment to it.
SurroundContents(n, s, e) ==
  LET x == ExtractContents(n, s, e)
      withSpan == InsertNode(x.node, x.pos, Elem("m", <<>>))
  IN AppendChildren(withSpan, InsertedPath(x.node, x.pos), x.frag)

\* The catch branch: extractContents, span.appendChild(contents), insertNode.
ExtractAndInsert(n, s, e) ==
  LET x == ExtractContents(n, s, e)
  IN InsertNode(x.node, x.pos, Elem("m", x.frag))

\* The span is inserted and the extracted contents are never appended to it.
WrapRangeLosingContents(n, s, e) ==
  LET x == ExtractContents(n, s, e)
  IN InsertNode(x.node, x.pos, Elem("m", <<>>))

WrapRange(n, s, e) ==
  IF SurroundThrows(n, s, e) THEN ExtractAndInsert(n, s, e)
  ELSE SurroundContents(n, s, e)

\* Path of the span WrapRange creates.
NewMarkerPath(n, s, e) ==
  LET x == ExtractContents(n, s, e) IN InsertedPath(x.node, x.pos)

\* ------------------------------------------------- the scan and the unwrap

\* The TreeWalker scan: every marker below the editor element that
\* intersects the range is collected (kind "x").
RECURSIVE MarkEveryMarker(_, _, _, _)
MarkEveryMarker(n, q, s, e) ==
  [n EXCEPT !.k = IF n.k = "m" THEN "x" ELSE n.k,
            !.c = [i \in 1..Len(n.c) |-> MarkEveryMarker(n.c[i], q \o <<i>>, s, e)]]

RECURSIVE MarkIntersecting(_, _, _, _)
MarkIntersecting(n, q, s, e) ==
  [n EXCEPT !.k = IF n.k = "m" /\ IntersectsNode(s, e, q) THEN "x" ELSE n.k,
            !.c = [i \in 1..Len(n.c) |-> MarkIntersecting(n.c[i], q \o <<i>>, s, e)]]

Scan(n, s, e) ==
  [n EXCEPT !.c = [i \in 1..Len(n.c) |-> MarkIntersecting(n.c[i], <<i>>, s, e)]]

RECURSIVE CountKind(_, _)
CountKind(n, k) ==
  (IF n.k = k THEN 1 ELSE 0) + SumSeq([i \in 1..Len(n.c) |-> CountKind(n.c[i], k)])

HasCollected(n) == CountKind(n, "x") > 0

\* One iteration of intersecting.forEach: the first collected marker in
\* document order is replaced by its children and its parent is normalized.
RECURSIVE UnwrapFirst(_)
UnwrapFirst(n) ==
  LET i == CHOOSE j \in 1..Len(n.c) :
             HasCollected(n.c[j]) /\ \A l \in 1..(j - 1) : ~HasCollected(n.c[l])
  IN IF n.c[i].k = "x"
     THEN Normalize([n EXCEPT !.c = SubSeq(n.c, 1, i - 1) \o n.c[i].c
                                      \o SubSeq(n.c, i + 1, Len(n.c))])
     ELSE [n EXCEPT !.c[i] = UnwrapFirst(n.c[i])]

RECURSIVE UnwrapAll(_)
UnwrapAll(n) == IF HasCollected(n) THEN UnwrapAll(UnwrapFirst(n)) ELSE n

\* The toggle-off branch is never taken.
ToggleDocAlwaysWrapping(n, s, e) == WrapRange(n, s, e)

\* The Document after toggleHighlightSelection with an accepted range.
ToggleDoc(n, s, e) ==
  LET scanned == Scan(n, s, e)
  IN IF HasCollected(scanned) THEN UnwrapAll(scanned) ELSE WrapRange(n, s, e)

\* ------------------------------------------------------------------- state

VARIABLES
  WORD_POOL,        \* the word pool (fixed after start)
  CONSTRAINT_POOL,  \* the constraint pool (fixed after start)
  word1,            \* App state: slot "element i"
  word2,            \* App state: slot "element ii"
  constraint,       \* App state: slot "constraint"
  aiPrompt,         \* App state: the displayed AI prompt, or Null
  shuf,             \* the running (or last completed) call of shuffle
  el,               \* the editor element's DOM subtree (the notes Document)
  sel,              \* window.getSelection(): the host's current selection
  hasSelection,     \* AnnotatedNotes state: enables the highlight button
  notesHtml,        \* App state: the notes markup
  storedNotes,      \* localStorage['notes_html']
  last,             \* history: the event handled last
  rt,               \* history: the last accepted toggles (for the round trip)
  apiKey,           \* App state: the credential typed by the user
  storedKey,        \* localStorage['openai_api_key']
  isGenerating,     \* App state: the generating flag
  pending,          \* generation calls in flight (awaited, not settled)
  requested,        \* history: number of invocations of generateAIPrompt
  calls,            \* history: number of calls of the generation function
  genEv,            \* history: the last step of generateAIPrompt
  copied,           \* App state: the copy state
  copyTimers,       \* pending 2000 ms timers, oldest first (copy numbers)
  copies,           \* history: number of clicks on the copy button
  copyEv,           \* history: the last step of the copy machinery
  value,            \* PromptSlot prop: the slot's value in the parent
  displayValue,     \* PromptSlot state: the text shown in the input
  isChanging,       \* PromptSlot state: the transition flag
  isEditing,        \* PromptSlot state: the input has the focus
  timer,            \* PromptSlot: the pending 100 ms timer of the effect
  slotEvents        \* history: number of events the PromptSlot received

selVars == <<WORD_POOL, CONSTRAINT_POOL, word1, word2, constraint, aiPrompt, shuf>>

noteVars == <<el, sel, hasSelection, notesHtml, storedNotes, last, rt>>

genVars == <<apiKey, storedKey, isGenerating, pending, requested, calls, genEv>>

copyVars == <<copied, copyTimers, copies, copyEv>>

slotVars == <<value, displayValue, isChanging, isEditing, timer, slotEvents>>

vars == <<WORD_POOL, CONSTRAINT_POOL, word1, word2, constraint, aiPrompt, shuf,
          el, sel, hasSelection, notesHtml, storedNotes, last, rt,
          apiKey, storedKey, isGenerating, pending, requested, calls, genEv,
          copied, copyTimers, copies, copyEv,
          value, displayValue, isChanging, isEditing, timer, slotEvents>>

\* --------------------------------------------------------------------- text

\* A text is a sequence of characters. null is no text.
Null == <<"null">>

\* -------------------------------------------------------- selection engine

Words == {"p", "q"}

\* Text a user can type into a slot: pool words or anything else.
ManualTexts == Words \cup {"typed"}

Pools == UNION {[1..n -> Words] : n \in 1..MaxPool}

Slots == {"word1", "word2", "constraint"}

PoolOf(slot) == IF slot = "constraint" THEN CONSTRAINT_POOL ELSE WORD_POOL

SlotValue(slot) ==
  IF slot = "word1" THEN word1 ELSE IF slot = "word2" THEN word2 ELSE constraint

NoShuffle == [pc |-> "idle", slot |-> "none", current |-> "none", next |-> "none"]

\* The do-while condition of shuffle.
LoopAgainNever(next, current) == FALSE

LoopAgain(next, current) == next = current

\* shuffleWord1 / shuffleWord2 / shuffleConstraint: shuffle is entered with
\* the slot's current value.
ShuffleClick(slot) ==
  /\ shuf.pc = "idle"
  /\ shuf' = [pc |-> "pick", slot |-> slot, current |-> SlotValue(slot), next |-> "none"]
  /\ UNCHANGED <<WORD_POOL, CONSTRAINT_POOL, word1, word2, constraint, aiPrompt>>
  /\ UNCHANGED <<noteVars, genVars, copyVars, slotVars>>

\* The loop body: getRandomConstraint() / getRandomWord(), any index of the pool.
ShufflePick ==
  /\ shuf.pc = "pick"
  /\ \E i \in 1..Len(PoolOf(shuf.slot)) :
       shuf' = [shuf EXCEPT !.pc = "test", !.next = PoolOf(shuf.slot)[i]]
  /\ UNCHANGED <<WORD_POOL, CONSTRAINT_POOL, word1, word2, constraint, aiPrompt>>
  /\ UNCHANGED <<noteVars, genVars, copyVars, slotVars>>

\* The loop test, and after the loop setter(next) and setAiPrompt(null).
ShuffleTest ==
  /\ shuf.pc = "test"
  /\ IF LoopAgain(shuf.next, shuf.current)
     THEN /\ shuf' = [shuf EXCEPT !.pc = "pick"]
          /\ UNCHANGED <<word1, word2, constraint, aiPrompt>>
     ELSE /\ shuf' = [shuf EXCEPT !.pc = "idle"]
          /\ word1' = IF shuf.slot = "word1" THEN shuf.next ELSE word1
          /\ word2' = IF shuf.slot = "word2" THEN shuf.next ELSE word2
          /\ constraint' = IF shuf.slot = "constraint" THEN shuf.next ELSE constraint
          /\ aiPrompt' = Null
  /\ UNCHANGED <<WORD_POOL, CONSTRAINT_POOL>>
  /\ UNCHANGED <<noteVars, genVars, copyVars, slotVars>>

\* PromptSlot onChange wired to setWord1 / setWord2 / setConstraint: the slot
\* takes the typed text, nothing else changes.
SetManual(slot, text) ==
  /\ shuf.pc = "idle"
  /\ word1' = IF slot = "word1" THEN text ELSE word1
  /\ word2' = IF slot = "word2" THEN text ELSE word2
  /\ constraint' = IF slot = "constraint" THEN text ELSE constraint
  /\ shuf' = NoShuffle
  /\ UNCHANGED <<WORD_POOL, CONSTRAINT_POOL, aiPrompt>>
  /\ UNCHANGED <<noteVars, genVars, copyVars, slotVars>>

\* ------------------------------------------------------- annotation engine

\* Setting innerHTML: the markup parsed into a child list. Text between tags
\* becomes one Text node; there are no empty Text nodes.
RECURSIVE ParseNodes(_)
ParseNodes(ts) ==
  IF ts = <<>> \/ Head(ts) \in {"</m>", "</e>"} THEN [nodes |-> <<>>, rest |-> ts]
  ELSE IF Head(ts) \in {"<m>", "<e>"}
    THEN LET inner == ParseNodes(Tail(ts))
             after == ParseNodes(Tail(inner.rest))
         IN [nodes |-> <<Elem(IF Head(ts) = "<m>" THEN "m" ELSE "e", inner.nodes)>>
                         \o after.nodes,
             rest |-> after.rest]
  ELSE LET after == ParseNodes(Tail(ts))
       IN IF after.nodes # <<>> /\ IsText(Head(after.nodes))
          THEN [nodes |-> <<Text(<<Head(ts)>> \o Head(after.nodes).d)>> \o Tail(after.nodes),
                rest |-> after.rest]
          ELSE [nodes |-> <<Text(<<Head(ts)>>)>> \o after.nodes, rest |-> after.rest]

\* The effect that keeps the DOM in sync with the stored markup.
SyncDom(n, valueHtml) ==
  IF Serialize(n) # valueHtml THEN Elem("el", ParseNodes(valueHtml).nodes) ELSE n

\* The effect runs after a render in which valueHtml changed (its dependency
\* list is [valueHtml]); prev is the markup of the render before.
Effect(n, prev, valueHtml) ==
  IF valueHtml = prev THEN n ELSE SyncDom(n, valueHtml)

\* The host's selection: none (rangeCount = 0), a range whose common ancestor
\* is outside the editor element ("out"), or a range s..e inside it ("in").
P0 == Point(<<>>, 0)

NoSel == [kind |-> "none", collapsed |-> TRUE, s |-> P0, e |-> P0]

OutSel(collapsed) == [kind |-> "out", collapsed |-> collapsed, s |-> P0, e |-> P0]

InSel(s, e) == [kind |-> "in", collapsed |-> (s = e), s |-> s, e |-> e]

Selections(n) ==
  {NoSel, OutSel(TRUE), OutSel(FALSE)}
  \cup {InSel(s, e) : <<s, e>> \in {pr \in Points(n) \X Points(n) :
                                      pr[1] = pr[2] \/ Before(pr[1], pr[2])}}

\* Selections the host can make without a key or pointer event reaching the
\* editor: the selection is dropped or moved out of the editor (a click
\* elsewhere on the page), or everything is selected (the Select All command).
UnobservedSelections(n) ==
  {NoSel, OutSel(TRUE), OutSel(FALSE), InSel(P0, Point(<<>>, Len(n.c)))}

\* el.contains(range.commonAncestorContainer)
Within(r) == r.kind = "in"

\* updateSelectionState: the value given to setHasSelection.
UpdateSelectionState(r) ==
  IF r.kind = "none" THEN FALSE ELSE Within(r) /\ ~r.collapsed

\* The early returns of toggleHighlightSelection.
RejectedIgnoringCollapsed(r) == r.kind = "none" \/ ~Within(r)

Rejected(r) == r.kind = "none" \/ r.collapsed \/ ~Within(r)

\* Number of characters of the Document before a boundary point.
RECURSIVE CharsBefore(_, _)
CharsBefore(n, pt) ==
  IF pt.p = <<>>
  THEN IF IsText(n) THEN pt.o
       ELSE SumSeq([i \in 1..pt.o |-> Len(PlainText(n.c[i]))])
  ELSE SumSeq([i \in 1..(Head(pt.p) - 1) |-> Len(PlainText(n.c[i]))])
       + CharsBefore(n.c[Head(pt.p)], Point(Tail(pt.p), pt.o))

\* The history is not kept.
TripOff ==
  [stage |-> 0 - 1, ser |-> <<>>, a |-> 0, b |-> 0, mpath |-> <<>>,
   wrapped |-> FALSE, inside |-> FALSE]

NoTrip ==
  [stage |-> 0, ser |-> <<>>, a |-> 0, b |-> 0, mpath |-> <<>>,
   wrapped |-> FALSE, inside |-> FALSE]

\* History of the last accepted toggles: stage 1 after a toggle, stage 2 after
\* a second toggle over the same span of text, that span being what was
\* selected in between. ser is the markup before the first of them; wrapped
\* says the first wrapped the range by surroundContents, inside that the
\* second range lay within the marker the first created.
NextTrip(n, r, isOn) ==
  LET a == CharsBefore(n, r.s)
      b == CharsBefore(n, r.e)
  IN IF rt.stage < 0 THEN rt
     ELSE IF rt.stage = 1 /\ rt.a = a /\ rt.b = b
     THEN [rt EXCEPT !.stage = 2, !.mpath = <<>>,
                     !.inside = /\ rt.wrapped
                                /\ IsPrefix(rt.mpath, r.s.p)
                                /\ IsPrefix(rt.mpath, r.e.p)]
     ELSE [stage |-> 1, ser |-> Serialize(n), a |-> a, b |-> b,
           mpath |-> IF isOn THEN NewMarkerPath(n, r.s, r.e) ELSE <<>>,
           wrapped |-> isOn /\ ~SurroundThrows(n, r.s, r.e),
           inside |-> FALSE]

\* The history after the selection has become r: kept while the span toggled
\* last is selected again.
TripAfterSelect(n, r) ==
  IF rt.stage < 0 THEN rt
  ELSE IF /\ rt.stage = 1
          /\ r.kind = "in"
          /\ CharsBefore(n, r.s) = rt.a
          /\ CharsBefore(n, r.e) = rt.b
    THEN rt
  ELSE NoTrip

\* sel.removeAllRanges()
RemoveAllRanges(r) == NoSel

\* save(): the markup handed to onChangeHtml.
SaveStale(n) == notesHtml

Save(n) == Serialize(n)

RECURSIVE CountNodes(_)
CountNodes(n) == 1 + SumSeq([i \in 1..Len(n.c) |-> CountNodes(n.c[i])])

\* toggleHighlightSelection, from the highlight button (enabled with
\* hasSelection) or from Cmd/Ctrl+H in the editor.
ToggleHighlightSelection(via) ==
  /\ via = "button" => hasSelection
  /\ Rejected(sel) \/ CountNodes(ToggleDoc(el, sel.s, sel.e)) <= MaxNodes
  /\ IF Rejected(sel)
     THEN /\ last' = "toggle:rejected"
          /\ UNCHANGED <<el, sel, hasSelection, notesHtml, storedNotes, rt>>
     ELSE LET isOn == ~HasCollected(Scan(el, sel.s, sel.e))
              new == ToggleDoc(el, sel.s, sel.e)
          IN /\ sel' = RemoveAllRanges(sel)
             /\ notesHtml' = Save(new)
             /\ storedNotes' = Save(new)
             /\ el' = Effect(new, notesHtml, Save(new))
             /\ hasSelection' = FALSE
             /\ last' = IF ~isOn THEN "toggle:off"
                        ELSE IF SurroundThrows(el, sel.s, sel.e) THEN "toggle:on:catch"
                        ELSE "toggle:on"
             /\ rt' = NextTrip(el, sel, isOn)
  /\ UNCHANGED <<selVars, genVars, copyVars, slotVars>>

\* onMouseUp in the editor: the pointer has set the selection r.
MouseUp(r) ==
  /\ sel' = r
  /\ hasSelection' = UpdateSelectionState(r)
  /\ last' = "other"
  /\ rt' = TripAfterSelect(el, r)
  /\ UNCHANGED <<el, notesHtml, storedNotes>>
  /\ UNCHANGED <<selVars, genVars, copyVars, slotVars>>

\* onKeyUp in the editor.
KeyUp ==
  /\ hasSelection' = UpdateSelectionState(sel)
  /\ last' = "other"
  /\ UNCHANGED <<el, sel, notesHtml, storedNotes, rt>>
  /\ UNCHANGED <<selVars, genVars, copyVars, slotVars>>

\* The host changes the selection and no editor handler runs: the default
\* action of a key press (onKeyDown acts on Cmd/Ctrl+H only), or a pointer
\* released outside the editor element.
SelectionChange(r) ==
  /\ r # sel
  /\ sel' = r
  /\ last' = "other"
  /\ rt' = TripAfterSelect(el, r)
  /\ UNCHANGED <<el, hasSelection, notesHtml, storedNotes>>
  /\ UNCHANGED <<selVars, genVars, copyVars, slotVars>>

\* onInput = save: the user's edit replaces the selected part of one Text
\* node (some of the node's data stays), the caret collapses there.
Input ==
  /\ sel.kind = "in" /\ ~sel.collapsed
  /\ sel.s.p = sel.e.p
  /\ IsText(NodeAt(el, sel.s.p))
  /\ sel.e.o - sel.s.o < Length(NodeAt(el, sel.s.p))
  /\ LET x == ExtractContents(el, sel.s, sel.e)
     IN /\ sel' = InSel(x.pos, x.pos)
        /\ notesHtml' = Save(x.node)
        /\ storedNotes' = Save(x.node)
        /\ el' = Effect(x.node, notesHtml, Save(x.node))
  /\ last' = "other"
  /\ rt' = IF rt.stage < 0 THEN rt ELSE NoTrip
  /\ UNCHANGED hasSelection
  /\ UNCHANGED <<selVars, genVars, copyVars, slotVars>>

\* The page is loaded again: the notes come back from localStorage and the
\* editor's DOM is rebuilt from the markup.
Reload ==
  /\ notesHtml' = storedNotes
  /\ el' = SyncDom(Elem("el", <<>>), storedNotes)
  /\ sel' = NoSel
  /\ hasSelection' = FALSE
  /\ last' = "other"
  /\ rt' = IF rt.stage < 0 THEN rt ELSE NoTrip
  /\ UNCHANGED storedNotes
  /\ UNCHANGED <<selVars, genVars, copyVars, slotVars>>

\* ------------------------------------------------------- generation engine

\* What JavaScript counts as white space, as far as keys and results hold it.
Spaces == {" "}

RECURSIVE TrimStart(_)
TrimStart(t) == IF t # <<>> /\ Head(t) \in Spaces THEN TrimStart(Tail(t)) ELSE t

RECURSIVE TrimEnd(_)
TrimEnd(t) == IF t # <<>> /\ Last(t) \in Spaces THEN TrimEnd(Front(t)) ELSE t

\* String.prototype.trim()
Trim(t) == TrimEnd(TrimStart(t))

\* String.prototype.includes(): a case-sensitive search for sub in t.
Includes(t, sub) ==
  \E i \in 0..(Len(t) - Len(sub)) : SubSeq(t, i + 1, i + Len(sub)) = sub

\* The texts of at most n characters out of chars.
Texts(chars, n) == UNION {[1..k -> chars] : k \in 0..n}

\* undefined: what choices[0]?.message?.content yields without a choice or
\* without content.
Undefined == <<"undefined">>

\* A value that is true in a condition: not null, not undefined, not ''.
Truthy(t) == t # Null /\ t # Undefined /\ t # <<>>

Keys == Texts({" ", "k"}, MaxKey)

Contents == Texts({" ", "x"}, MaxContent) \cup {Undefined}

MsgEnterKey == <<"Please enter your OpenAI API key to generate prompts.">>

MsgFailed == <<"Failed to generate prompt.">>

MsgInvalidKey == <<"Invalid API key. Please check your OpenAI API key and try again.">>

MsgStars == <<"The stars didn't align for this prompt. Try again.">>

\* The text the catch block searches the error's message for.
ApiKeyText == <<"a", "p", "i", " ", "k", "e", "y">>

NoError == [isError |-> FALSE, kind |-> "none", message |-> <<>>]

\* What the awaited call can throw: kind is what failed (the key was refused,
\* the 10000 ms timeout expired, the transport broke), message is the thrown
\* value's message, isError whether the value is an Error. The service words
\* a refused key "Incorrect API key provided".
Errors ==
  { [isError |-> TRUE, kind |-> "auth",
     message |-> <<"I", "n", "c", "o", "r", "r", "e", "c", "t", " ",
                   "A", "P", "I", " ", "k", "e", "y">>],
    [isError |-> TRUE, kind |-> "auth",
     message |-> <<"i", "n", "v", "a", "l", "i", "d", " ">> \o ApiKeyText],
    [isError |-> TRUE, kind |-> "timeout",
     message |-> <<"R", "e", "q", "u", "e", "s", "t", " ",
                   "t", "i", "m", "e", "d", " ", "o", "u", "t", ".">>],
    [isError |-> TRUE, kind |-> "transport",
     message |-> <<"C", "o", "n", "n", "e", "c", "t", "i", "o", "n", " ",
                   "e", "r", "r", "o", "r", ".">>],
    [isError |-> FALSE, kind |-> "transport", message |-> ApiKeyText] }

\* How an awaited call settles: with a response or with a thrown value.
Outcomes ==
  {[ok |-> TRUE, content |-> c, error |-> NoError] : c \in Contents}
    \cup {[ok |-> FALSE, content |-> Undefined, error |-> e] : e \in Errors}

NoOutcome == [ok |-> FALSE, content |-> Undefined, error |-> NoError]

\* !apiKey || apiKey.trim() === ''
BlankOnlyEmpty(key) == ~Truthy(key)

Blank(key) == ~Truthy(key) \/ Trim(key) = <<>>

\* response.choices[0]?.message?.content?.trim() || "Failed to generate prompt."
OnSuccess(content) ==
  IF Truthy(content) /\ Truthy(Trim(content)) THEN Trim(content) ELSE MsgFailed

\* The catch block.
OnFailure(error) ==
  IF error.isError /\ Includes(error.message, ApiKeyText)
  THEN MsgInvalidKey
  ELSE MsgStars

\* The finally block: setIsGenerating(false) however the call settled.
AfterCallWithoutFinally(ok) == ~ok

AfterCall(ok) == FALSE

\* The three slot values a request phrase is built from.
Ingredients == <<word1, word2, constraint>>

NoGenEv == [kind |-> "none", id |-> 0, from |-> <<>>, out |-> NoOutcome]

\* generateAIPrompt up to its await, from the generate button (enabled
\* unless isGenerating || !apiKey.trim()) or called as the callback it is.
GenerateAIPrompt(via) ==
  /\ shuf.pc = "idle"
  /\ requested < MaxRequests
  /\ via = "button" => ~(isGenerating \/ ~Truthy(Trim(apiKey)))
  /\ requested' = requested + 1
  /\ IF Blank(apiKey)
     THEN /\ aiPrompt' = MsgEnterKey
          /\ genEv' = [NoGenEv EXCEPT !.kind = "blank", !.id = requested + 1]
          /\ UNCHANGED <<isGenerating, pending, calls>>
     ELSE /\ isGenerating' = TRUE
          /\ pending' = pending \cup
                          {[id |-> requested + 1, key |-> Trim(apiKey), from |-> Ingredients]}
          /\ calls' = calls + 1
          /\ genEv' = [NoGenEv EXCEPT !.kind = "start", !.id = requested + 1,
                                      !.from = Ingredients]
          /\ UNCHANGED aiPrompt
  /\ UNCHANGED <<WORD_POOL, CONSTRAINT_POOL, word1, word2, constraint, shuf>>
  /\ UNCHANGED <<apiKey, storedKey>>
  /\ UNCHANGED <<noteVars, copyVars, slotVars>>

\* generateAIPrompt after its await: the call r settles with out.
Resolve(r, out) ==
  /\ shuf.pc = "idle"
  /\ r \in pending
  /\ aiPrompt' = IF out.ok THEN OnSuccess(out.content) ELSE OnFailure(out.error)
  /\ isGenerating' = AfterCall(out.ok)
  /\ pending' = pending \ {r}
  /\ genEv' = [kind |-> "resolve", id |-> r.id, from |-> r.from, out |-> out]
  /\ UNCHANGED <<WORD_POOL, CONSTRAINT_POOL, word1, word2, constraint, shuf>>
  /\ UNCHANGED <<apiKey, storedKey, requested, calls>>
  /\ UNCHANGED <<noteVars, copyVars, slotVars>>

\* Every call in flight settles: the client is built with timeout: 10000.
ResolveSome == \E r \in pending, out \in Outcomes : Resolve(r, out)

\* handleApiKeyChange: the user edits the key field.
ApiKeyChange(key) ==
  /\ shuf.pc = "idle"
  /\ key # apiKey
  /\ apiKey' = key
  /\ storedKey' = key
  /\ UNCHANGED <<isGenerating, pending, requested, calls, genEv>>
  /\ UNCHANGED <<selVars, noteVars, copyVars, slotVars>>

\* ------------------------------------------------------------- copy button

\* copyToClipboard: writes tells whether navigator.clipboard.writeText
\* resolves. A copy that succeeds starts a 2000 ms timer that no later copy
\* clears; timers of equal delay run in the order they were set.
CopyToClipboard(writes) ==
  /\ shuf.pc = "idle"
  /\ copies < MaxCopies
  /\ copies' = copies + 1
  /\ IF ~Truthy(aiPrompt)
     THEN /\ copyEv' = "noprompt"
          /\ UNCHANGED <<copied, copyTimers>>
     ELSE IF writes
     THEN /\ copied' = TRUE
          /\ copyTimers' = Append(copyTimers, copies + 1)
          /\ copyEv' = "copied"
     ELSE /\ copyEv' = "failed"
          /\ UNCHANGED <<copied, copyTimers>>
  /\ UNCHANGED <<selVars, noteVars, genVars, slotVars>>

\* The oldest pending timer runs: setCopied(false).
CopyTimerFires ==
  /\ shuf.pc = "idle"
  /\ copyTimers # <<>>
  /\ copied' = FALSE
  /\ copyTimers' = Tail(copyTimers)
  /\ copyEv' = "timer"
  /\ UNCHANGED copies
  /\ UNCHANGED <<selVars, noteVars, genVars, slotVars>>

\* -------------------------------------------------------------- PromptSlot

NoTimer == [pending |-> FALSE, value |-> "none"]

\* The display effect, run after a render in which value or isEditing
\* changed: the cleanup of the run before (clearTimeout), then the body with
\* the state of this render.
DisplayEffect(v, dv, ch, ed) ==
  IF v # dv
  THEN IF ed
       THEN [displayValue |-> v, isChanging |-> ch, timer |-> NoTimer]
       ELSE [displayValue |-> dv, isChanging |-> TRUE,
             timer |-> [pending |-> TRUE, value |-> v]]
  ELSE [displayValue |-> dv, isChanging |-> ch, timer |-> NoTimer]

\* The state after a render with props and state (v, dv, ed): the effect
\* runs when one of its dependencies [value, isEditing] changed.
Rendered(v, dv, ed) ==
  IF v # value \/ ed # isEditing
  THEN DisplayEffect(v, dv, isChanging, ed)
  ELSE [displayValue |-> dv, isChanging |-> isChanging, timer |-> timer]

\* handleClick: onShuffle() gives the slot another value of the pool.
HandleClick(next) ==
  /\ slotEvents < MaxSlotEvents
  /\ next # value
  /\ value' = next
  /\ LET r == Rendered(next, displayValue, isEditing)
     IN /\ displayValue' = r.displayValue
        /\ isChanging' = r.isChanging
        /\ timer' = r.timer
  /\ slotEvents' = slotEvents + 1
  /\ UNCHANGED isEditing
  /\ UNCHANGED <<selVars, noteVars, genVars, copyVars>>

\* handleInputChange: the user types into the focused input.
HandleInputChange(newValue) ==
  /\ slotEvents < MaxSlotEvents
  /\ isEditing
  /\ newValue # displayValue
  /\ value' = newValue
  /\ LET r == Rendered(newValue, newValue, isEditing)
     IN /\ displayValue' = r.displayValue
        /\ isChanging' = r.isChanging
        /\ timer' = r.timer
  /\ slotEvents' = slotEvents + 1
  /\ UNCHANGED isEditing
  /\ UNCHANGED <<selVars, noteVars, genVars, copyVars>>

\* handleInputFocus
HandleInputFocus ==
  /\ slotEvents < MaxSlotEvents
  /\ ~isEditing
  /\ isEditing' = TRUE
  /\ LET r == Rendered(value, displayValue, TRUE)
     IN /\ displayValue' = r.displayValue
        /\ isChanging' = r.isChanging
        /\ timer' = r.timer
  /\ slotEvents' = slotEvents + 1
  /\ UNCHANGED value
  /\ UNCHANGED <<selVars, noteVars, genVars, copyVars>>

\* handleInputBlur
HandleInputBlur ==
  /\ slotEvents < MaxSlotEvents
  /\ isEditing
  /\ isEditing' = FALSE
  /\ LET r == Rendered(value, displayValue, FALSE)
     IN /\ displayValue' = r.displayValue
        /\ isChanging' = r.isChanging
        /\ timer' = r.timer
  /\ slotEvents' = slotEvents + 1
  /\ UNCHANGED value
  /\ UNCHANGED <<selVars, noteVars, genVars, copyVars>>

\* The 100 ms timer of the effect runs.
TimerFires ==
  /\ timer.pending
  /\ displayValue' = timer.value
  /\ isChanging' = FALSE
  /\ timer' = NoTimer
  /\ UNCHANGED <<value, isEditing, slotEvents>>
  /\ UNCHANGED <<selVars, noteVars, genVars, copyVars>>

\* ------------------------------------------------------------ start states

DocText == SubSeq(Letters, 1, MaxText)

Compositions(n) ==
  {cs \in UNION {[1..k -> 1..n] : k \in 1..n} : SumSeq(cs) = n}

SegKinds == {"t", "m", "e"}

Segment(kind, d) ==
  IF kind = "t" THEN Text(d)
  ELSE IF kind = "m" THEN Elem("m", <<Text(d)>>)
  ELSE Elem("e", <<Text(d)>>)

\* Markup a session can have stored: the text cut into consecutive pieces,
\* each plain, highlighted or inside another element, no two highlighted
\* pieces next to each other; and the empty notes.
StoredMarkups ==
  {<<>>} \cup
  {Serialize(Elem("el",
      [i \in 1..Len(cs) |->
         Segment(ks[i], SubSeq(DocText,
                               SumSeq(SubSeq(cs, 1, i - 1)) + 1,
                               SumSeq(SubSeq(cs, 1, i))))])) :
     <<cs, ks>> \in {pr \in Compositions(MaxText) \X UNION {[1..k -> SegKinds] : k \in 1..MaxText} :
                       /\ Len(pr[1]) = Len(pr[2])
                       /\ \A i \in 1..(Len(pr[2]) - 1) :
                            pr[2][i] = "e" \/ pr[2][i] # pr[2][i + 1]}}

\* The notes are read from localStorage, the editor mounts and its DOM is
\* set from the markup.
InitDoc ==
  /\ storedNotes \in StoredMarkups
  /\ notesHtml = storedNotes
  /\ el = SyncDom(Elem("el", <<>>), storedNotes)
  /\ sel = NoSel
  /\ hasSelection = FALSE
  /\ last = "other"

InitNotes == InitDoc /\ rt = TripOff

InitTrip == InitDoc /\ rt = NoTrip

InitSel ==
  /\ WORD_POOL \in Pools
  /\ CONSTRAINT_POOL \in Pools
  /\ word1 \in Range(WORD_POOL)
  /\ word2 \in Range(WORD_POOL)
  /\ constraint \in Range(CONSTRAINT_POOL)
  /\ aiPrompt = Null
  /\ shuf = NoShuffle

\* The slots of a session in which only the notes panel is used.
InitSelFixed ==
  /\ WORD_POOL = <<"p", "q">>
  /\ CONSTRAINT_POOL = <<"p", "q">>
  /\ word1 = "p"
  /\ word2 = "q"
  /\ constraint = "p"
  /\ aiPrompt = Null
  /\ shuf = NoShuffle

\* The notes of a session in which only the slots are used.
InitNotesEmpty ==
  /\ storedNotes = <<>>
  /\ notesHtml = <<>>
  /\ el = Elem("el", <<>>)
  /\ sel = NoSel
  /\ hasSelection = FALSE
  /\ last = "other"
  /\ rt = TripOff

NextNotes ==
  \/ \E via \in {"button", "key"} : ToggleHighlightSelection(via)
  \/ \E r \in Selections(el) : MouseUp(r)
  \/ KeyUp
  \/ \E r \in UnobservedSelections(el) : SelectionChange(r)
  \/ Input
  \/ Reload

NextShuffle ==
  \/ \E slot \in Slots : ShuffleClick(slot)
  \/ ShufflePick
  \/ ShuffleTest
  \/ \E slot \in Slots, text \in ManualTexts : SetManual(slot, text)

InitGen ==
  /\ apiKey \in Keys
  /\ storedKey = apiKey
  /\ isGenerating = FALSE
  /\ pending = {}
  /\ requested = 0
  /\ calls = 0
  /\ genEv = NoGenEv

\* A session that starts with a key stored.
InitGenFixed ==
  /\ apiKey = <<"k">>
  /\ storedKey = <<"k">>
  /\ isGenerating = FALSE
  /\ pending = {}
  /\ requested = 0
  /\ calls = 0
  /\ genEv = NoGenEv

InitCopy ==
  /\ copied = FALSE
  /\ copyTimers = <<>>
  /\ copies = 0
  /\ copyEv = "none"

InitSlot ==
  /\ value \in Words
  /\ displayValue = value
  /\ isChanging = FALSE
  /\ isEditing = FALSE
  /\ timer = NoTimer
  /\ slotEvents = 0

\* The PromptSlot of a session in which it gets no event.
InitSlotFixed ==
  /\ value = "p"
  /\ displayValue = "p"
  /\ isChanging = FALSE
  /\ isEditing = FALSE
  /\ timer = NoTimer
  /\ slotEvents = 0

\* The parts of the app a specification leaves alone.
InitRest == InitGenFixed /\ InitCopy /\ InitSlotFixed

\* The annotation engine.
Init == InitSelFixed /\ InitNotes /\ InitRest

Spec == Init /\ [][NextNotes]_vars

\* The annotation engine with the history of the last toggles kept.
InitWithTrip == InitSelFixed /\ InitTrip /\ InitRest

SpecTrip == InitWithTrip /\ [][NextNotes]_vars

\* The selection engine.
InitShuffle == InitSel /\ InitNotesEmpty /\ InitRest

SpecShuffle == InitShuffle /\ [][NextShuffle]_vars

\* The shuffle loop keeps running once entered: nothing blocks it.
FairShuffle == SpecShuffle /\ WF_vars(ShufflePick) /\ WF_vars(ShuffleTest)

\* ------------------------------------------- generation, copy, slot: specs

InitKeys == InitSelFixed /\ InitNotesEmpty /\ InitGen /\ InitCopy /\ InitSlotFixed

NextGen ==
  \/ \E via \in {"button", "call"} : GenerateAIPrompt(via)
  \/ \E r \in pending, out \in Outcomes : Resolve(r, out)
  \/ \E key \in Keys : ApiKeyChange(key)

\* The generation call and the key field.
SpecGen == InitKeys /\ [][NextGen]_vars

FairGen == SpecGen /\ WF_vars(ResolveSome)

InitApp == InitSelFixed /\ InitNotesEmpty /\ InitRest

NextIngredients ==
  \/ \E slot \in Slots : ShuffleClick(slot)
  \/ ShufflePick
  \/ ShuffleTest
  \/ \E slot \in Slots, text \in ManualTexts : SetManual(slot, text)
  \/ \E via \in {"button", "call"} : GenerateAIPrompt(via)
  \/ \E r \in pending, out \in Outcomes : Resolve(r, out)

\* The slots and the generation call together.
SpecIngredients == InitApp /\ [][NextIngredients]_vars

NextCopy ==
  \/ \E via \in {"button", "call"} : GenerateAIPrompt(via)
  \/ \E r \in pending, out \in Outcomes : Resolve(r, out)
  \/ \E writes \in BOOLEAN : CopyToClipboard(writes)
  \/ CopyTimerFires

\* The generation call and the copy button.
SpecCopy == InitApp /\ [][NextCopy]_vars

InitPromptSlot ==
  InitSelFixed /\ InitNotesEmpty /\ InitGenFixed /\ InitCopy /\ InitSlot

NextSlot ==
  \/ \E next \in Words : HandleClick(next)
  \/ \E newValue \in ManualTexts : HandleInputChange(newValue)
  \/ HandleInputFocus
  \/ HandleInputBlur
  \/ TimerFires

\* One PromptSlot.
SpecSlot == InitPromptSlot /\ [][NextSlot]_vars

\* A timer that is pending runs (after 100 ms) unless it is cleared.
FairSlot == SpecSlot /\ WF_vars(TimerFires)

\* ------------------------------------------------------------------ claims

\* Values of last after a toggle: rejected, unwrapped (off), wrapped by
\* surroundContents (on) or wrapped in the catch branch (on:catch).
ToggleEvents == {"toggle:rejected", "toggle:on", "toggle:on:catch", "toggle:off"}

\* A range the handler accepts: some selection, not collapsed, within the
\* editor element.
ValidRange(r) == r.kind = "in" /\ ~r.collapsed

Distinct(pool) == Cardinality(Range(pool))

\* C1: a shuffle that completes on a slot whose value v is in the pool, the
\* pool holding more than one distinct element, stores a value of the pool
\* other than v.
ShuffleStoresAnotherPoolValue ==
  ( /\ shuf.pc = "idle"
    /\ shuf.slot # "none"
    /\ Distinct(PoolOf(shuf.slot)) > 1
    /\ shuf.current \in Range(PoolOf(shuf.slot)) )
  => /\ SlotValue(shuf.slot) \in Range(PoolOf(shuf.slot))
     /\ SlotValue(shuf.slot) # shuf.current

\* C1 witness: pool ["p","q"], current "p", the completed shuffle stored "q".
ShuffleOfTwoCompleted ==
  /\ shuf.pc = "idle"
  /\ shuf.slot = "word1"
  /\ WORD_POOL = <<"p", "q">>
  /\ shuf.current = "p"
  /\ word1 = "q"

RejectedToggleChangesNothing ==
  [][ (last' \in ToggleEvents /\ ~ValidRange(sel))
        => UNCHANGED <<el, notesHtml, storedNotes, sel, hasSelection>> ]_vars

\* C3 witness: a toggle was rejected for a collapsed range in the editor while
\* the highlight button was still enabled.
CollapsedToggleRejected ==
  /\ last = "toggle:rejected"
  /\ sel.kind = "in"
  /\ sel.collapsed
  /\ hasSelection

\* C9: right after a toggle that was not rejected the selection is cleared,
\* hasSelection is false and the persisted notes are the markup of the
\* Document as the toggle left it.
AcceptedToggleClearsAndPersists ==
  last \in {"toggle:on", "toggle:on:catch", "toggle:off"}
    => /\ sel.kind = "none"
       /\ ~hasSelection
       /\ storedNotes = Serialize(el)
       /\ notesHtml = Serialize(el)

\* C9 witness: a toggle-off has just run on notes that still hold a marker.
ToggleOffPersisted ==
  /\ last = "toggle:off"
  /\ CountKind(el, "m") > 0
  /\ storedNotes = Serialize(el)

\* C10: after every handled event the highlight control is enabled exactly
\* when a non-collapsed selection exists within the notes Document.
FlagTracksSelection == hasSelection <=> ValidRange(sel)

\* Paths of the inclusive descendants of n in document order.
RECURSIVE PathSeq(_)
PathSeq(n) ==
  <<<<>>>> \o Flatten([i \in 1..Len(n.c) |->
                         [j \in 1..Len(PathSeq(n.c[i])) |-> <<i>> \o PathSeq(n.c[i])[j]]])

MarkerPaths(n) == SelectSeq(PathSeq(n), LAMBDA q : NodeAt(n, q).k = "m")

\* The span of text <<first, end>> (in characters of the Document) of the
\* node at path q.
SpanOf(n, q) ==
  LET a == CharsBefore(n, Point(Front(q), Last(q) - 1))
  IN <<a, a + Len(PlainText(NodeAt(n, q)))>>

SpansOf(n, qs) == [i \in 1..Len(qs) |-> SpanOf(n, qs[i])]

\* The spans of the markers of n, in document order.
MarkerSpans(n) == SpansOf(n, MarkerPaths(n))

\* The spans of the markers of n that the range r does not intersect.
UntouchedSpans(n, r) ==
  SpansOf(n, SelectSeq(MarkerPaths(n), LAMBDA q : ~IntersectsNode(r.s, r.e, q)))

NoMarkerIntersects(n, r) == UntouchedSpans(n, r) = MarkerSpans(n)

RangeSpan(n, r) == <<CharsBefore(n, r.s), CharsBefore(n, r.e)>>

Without(seq, i) == SubSeq(seq, 1, i - 1) \o SubSeq(seq, i + 1, Len(seq))

\* The markup without the marker tags.
StripMarkers(html) == SelectSeq(html, LAMBDA t : t \notin {"<m>", "</m>"})

\* C4: a toggle with a valid range that intersects no marker leaves exactly
\* one more marker, spanning exactly the text of the range, the other markers
\* being where they were, and the plain text of the Document is unchanged.
ToggleOnWrapsExactlyTheRange ==
  [][ (last' \in ToggleEvents /\ ValidRange(sel) /\ NoMarkerIntersects(el, sel))
        => /\ PlainText(el') = PlainText(el)
           /\ CountKind(el', "m") = CountKind(el, "m") + 1
           /\ \E i \in 1..Len(MarkerSpans(el')) :
                /\ MarkerSpans(el')[i] = RangeSpan(el, sel)
                /\ Without(MarkerSpans(el'), i) = MarkerSpans(el) ]_vars

\* C4 witness: a toggle-on has wrapped a range of text that partially
\* contained another element (the extract-and-insert branch).
ToggleOnAcrossElementDone ==
  /\ last = "toggle:on:catch"
  /\ \E q \in Paths(el) \ {<<>>} :
       /\ NodeAt(el, q).k = "m"
       /\ \E i \in 1..Len(NodeAt(el, q).c) : NodeAt(el, q).c[i].k = "e"
       /\ PlainText(NodeAt(el, q)) # <<>>

\* C5: a toggle with a valid range that intersects markers removes exactly
\* the intersecting markers, creates none, and leaves the plain text and the
\* rest of the markup as they were.
ToggleOffUnwrapsExactlyTheIntersecting ==
  [][ (last' \in ToggleEvents /\ ValidRange(sel) /\ ~NoMarkerIntersects(el, sel))
        => /\ PlainText(el') = PlainText(el)
           /\ MarkerSpans(el') = UntouchedSpans(el, sel)
           /\ StripMarkers(Serialize(el')) = StripMarkers(Serialize(el)) ]_vars

\* C5 witness: a toggle-off has run and a marker it did not intersect is
\* still there.
ToggleOffKeptAnotherMarker ==
  /\ last = "toggle:off"
  /\ CountKind(el, "m") > 0

\* C6 (as stated): two toggles over the same span of text bring the markup
\* back to what it was before the first.
TwoTogglesRestoreMarkup == rt.stage = 2 => Serialize(el) = rt.ser

\* C6 (amended): when the first toggle wrapped the range by surroundContents
\* (no marker intersected, no element partially contained) and the second
\* range lies within the marker it created, the markup is back to what it
\* was before the first.
WrapThenUnwrapRestoresMarkup ==
  (rt.stage = 2 /\ rt.inside) => Serialize(el) = rt.ser

\* C6 witness: such a round trip over a span of at least one character, in
\* notes that hold markup.
RoundTripDone ==
  /\ rt.stage = 2
  /\ rt.inside
  /\ rt.b > rt.a
  /\ last = "toggle:off"
  /\ Len(rt.ser) > Len(PlainText(el))

NoNestedMarkers(n) ==
  \A q \in Paths(n), q2 \in Paths(n) :
    (NodeAt(n, q).k = "m" /\ NodeAt(n, q2).k = "m" /\ q # q2) => ~IsPrefix(q, q2)

NoEmptyMarkers(n) ==
  \A q \in Paths(n) : NodeAt(n, q).k = "m" => PlainText(NodeAt(n, q)) # <<>>

\* C7: no marker is nested in another and no marker is without content.
MarkersWellFormed == NoNestedMarkers(el) /\ NoEmptyMarkers(el)

\* Two markers are siblings with nothing, or only empty Text nodes, between.
NoAdjacentMarkers(n) ==
  LET m == Normalize(n)
  IN \A q \in Paths(m) :
       \A i \in 1..(Len(NodeAt(m, q).c) - 1) :
         ~(NodeAt(m, q).c[i].k = "m" /\ NodeAt(m, q).c[i + 1].k = "m")

\* C8: the Document never holds two markers next to each other.
MarkersNeverAdjacent == NoAdjacentMarkers(el)

\* ------------------------------------------- claims: generation, copy, slot

\* A credential that is missing or holds white space only.
OnlyWhitespace(key) == \A i \in 1..Len(key) : key[i] = " "

\* C11: a generation requested while the credential is missing or holds only
\* white space makes no call of the generation function, does not turn the
\* generating flag on, and displays the 'please enter your API key' message.
BlankKeyMakesNoCall ==
  [][(requested' # requested /\ OnlyWhitespace(apiKey))
       => /\ calls' = calls
          /\ pending' = pending
          /\ isGenerating' => isGenerating
          /\ aiPrompt' = MsgEnterKey]_vars

\* C11 witness: generateAIPrompt has run with the key " ".
BlankRequestAnswered ==
  /\ genEv.kind = "blank"
  /\ apiKey = <<" ">>
  /\ aiPrompt = MsgEnterKey
  /\ calls = 0
  /\ ~isGenerating

\* The text the outcome of a call is to display: the trimmed text of a
\* success, the fallback message for an empty, blank or missing text, the
\* invalid-credential message when the key was refused, the generic
\* sentence for every other failure.
ExpectedText(out) ==
  IF out.ok
  THEN IF out.content = Undefined \/ OnlyWhitespace(out.content)
       THEN MsgFailed
       ELSE Trim(out.content)
  ELSE IF out.error.kind = "auth" THEN MsgInvalidKey ELSE MsgStars

\* C12: when a generation call has settled, the displayed text is the one
\* its outcome maps to.
EveryOutcomeDisplayed ==
  genEv.kind = "resolve" => aiPrompt = ExpectedText(genEv.out)

\* C13: the generating flag is true only while a call is in flight, and once
\* true it becomes false again, however the call settles.
GeneratingFlagReturns ==
  /\ [](isGenerating => pending # {})
  /\ isGenerating ~> ~isGenerating

\* C13 witness: a call has failed and the flag is off again.
FailedCallSettled ==
  /\ genEv.kind = "resolve"
  /\ ~genEv.out.ok
  /\ pending = {}
  /\ ~isGenerating

\* C14: a copy without a displayed prompt or with a failing clipboard write
\* does not set the copy state; a copy that succeeds sets it; and the copy
\* state is reset by the timer of the last copy that succeeded only, that
\* is 2 seconds after that copy.
CopyStateFollowsCopies ==
  [][/\ (copies' # copies /\ copyEv' \in {"noprompt", "failed"}) => (copied' => copied)
     /\ (copies' # copies /\ copyEv' = "copied") => copied'
     /\ (copied /\ ~copied') => Head(copyTimers) = Last(copyTimers)]_vars

\* C15: a step that changes the value of a slot leaves the AI prompt null.
SlotChangeResetsPrompt ==
  [][Ingredients' # Ingredients => aiPrompt' = Null]_vars

\* C16: a call that settles with a result to display was started from the
\* values the three slots have now.
NoStaleResult ==
  [][\A r \in pending \ pending' :
       (genEv'.out.ok /\ aiPrompt' # MsgFailed) => r.from = Ingredients]_vars

\* C17: in a PromptSlot isChanging is true only while the timer is pending,
\* and once the events have stopped the slot shows its value with the
\* transition flag cleared.
SlotSettles ==
  /\ [](isChanging => timer.pending)
  /\ <>[](displayValue = value /\ ~isChanging)

====
